---- MODULE Spec2Model ----
(***************************************************************************)
(* Model of generate-rustc-flags (src/lib.rs): the recursive unit          *)
(* collection collect_units, the target unit locator, the flag and         *)
(* environment assembly of generate_rustc_flags and its effect on the      *)
(* process environment.                                                    *)
(*                                                                         *)
(* Strings are sequences of tokens, so that format!, trim, to_string and   *)
(* Path::display are computed and not taken as the identity.  Paths are    *)
(* sequences of components.                                                *)
(***************************************************************************)
EXTENDS Naturals, Sequences, FiniteSets

VARIABLES
  units,          \* the interned units of the build context: target, package
  unit_deps,      \* cx.unit_deps: unit -> ordered dependency units
  roots,          \* bcx.roots with the default filter
  rustc_run,      \* what running `<program> --print sysroot` produces
  build_script,   \* per package: build script, its run and recorded output
  manifest_ok,    \* ./Cargo.toml resolves and the build context is created
  process_env,    \* the environment of the calling process
  call,           \* the last call of generate_rustc_flags: args, result, env
  stack,          \* collect_units: the recursion stack
  next_root,      \* collect_units: index of the root being collected
  all_units,      \* the collected unit list
  source_path,    \* the requested path handed to the locator
  target_unit,    \* the locator's result
  pc              \* position of the collection/location run

vars == <<units, unit_deps, roots, rustc_run, build_script, manifest_ok,
          process_env, call, stack, next_root, all_units, source_path,
          target_unit, pc>>

world == <<units, unit_deps, roots, rustc_run, build_script, manifest_ok>>

(***************************************************************************)
(* Bounds                                                                  *)
(***************************************************************************)
MaxDeps == 2          \* dependencies per unit in the drawn unit graphs
MaxRoots == 2         \* root units in the drawn unit graphs
MaxScriptPairs == 2   \* environment pairs a build script emits

(***************************************************************************)
(* Generic helpers                                                         *)
(***************************************************************************)
None == [kind |-> "none"]

Range(s) == {s[i] : i \in 1..Len(s)}

\* sequences over S without repetition, of length lo..hi
DistinctSeqs(S, lo, hi) ==
  UNION {{s \in [1..n -> S] : \A i, j \in 1..n : i # j => s[i] # s[j]} : n \in lo..hi}

\* all sequences over S of length 0..n
SeqsUpTo(S, n) == UNION {[1..k -> S] : k \in 0..n}

RECURSIVE Flatten(_)
Flatten(ss) == IF ss = <<>> THEN <<>> ELSE Head(ss) \o Flatten(Tail(ss))

Count(s, x) == Cardinality({i \in 1..Len(s) : s[i] = x})

(***************************************************************************)
(* The project: units, packages, paths                                     *)
(***************************************************************************)
Units == 1..4

WorkspaceDir == <<"ws">>

Packages ==
  [demo   |-> [name |-> <<"demo">>,
               version |-> [major |-> 1, minor |-> 2, patch |-> 3],
               root |-> WorkspaceDir,
               features |-> {"extra", "fast"}],
   helper |-> [name |-> <<"helper">>,
               version |-> [major |-> 0, minor |-> 4, patch |-> 7],
               root |-> WorkspaceDir \o <<"helper">>,
               features |-> {}]]

\* crate types a library target of the demo package may declare
LibCrateTypes == {<<"lib">>, <<"cdylib", "lib">>}

UnitTable(lib_types) ==
  <<[pkg |-> "demo", crate_name |-> <<"demo">>, is_lib |-> FALSE,
     crate_types |-> <<"bin">>, edition |-> <<"2018">>,
     src_path |-> WorkspaceDir \o <<"src", "main.rs">>,
     artifact |-> "libdemo-1111.rmeta"],
    [pkg |-> "demo", crate_name |-> <<"tool">>, is_lib |-> FALSE,
     crate_types |-> <<"bin">>, edition |-> <<"2018">>,
     src_path |-> WorkspaceDir \o <<"src", "bin", "tool.rs">>,
     artifact |-> "libtool-2222.rmeta"],
    [pkg |-> "demo", crate_name |-> <<"demo">>, is_lib |-> TRUE,
     crate_types |-> lib_types, edition |-> <<"2018">>,
     src_path |-> WorkspaceDir \o <<"src", "lib.rs">>,
     artifact |-> "libdemo-3333.rmeta"],
    [pkg |-> "helper", crate_name |-> <<"helper">>, is_lib |-> TRUE,
     crate_types |-> <<"proc-macro">>, edition |-> <<"2021">>,
     src_path |-> WorkspaceDir \o <<"helper", "src", "lib.rs">>,
     artifact |-> "libhelper-4444.rmeta"]>>

\* the paths a caller asks about
SourcePaths ==
  {WorkspaceDir \o <<"src", "lib.rs">>,
   WorkspaceDir \o <<"src", "bin", "tool.rs">>,
   WorkspaceDir \o <<"helper", "src", "lib.rs">>,
   WorkspaceDir \o <<"helper", "src">>,
   <<"elsewhere", "x.rs">>}

\* acyclic dependency edges: a unit depends on later units only
DepGraphs ==
  {d \in [Units -> DistinctSeqs(Units, 0, MaxDeps)] :
     \A u \in Units : \A i \in 1..Len(d[u]) : d[u][i] > u}

RootSeqs == DistinctSeqs(Units, 0, MaxRoots)

\* the dependencies and roots cargo derives from the demo manifest
DeclaredDeps == <<(<<3, 4>>), (<<3, 4>>), (<<4>>), (<<>>)>>
DeclaredRoots == <<3, 1, 2>>

(***************************************************************************)
(* collect_units                                                           *)
(***************************************************************************)
\* a slip that chains the unit before its dependencies' units
CollectResultPreOrder(frame) == <<frame.unit>> \o frame.acc

\* the value a collect_units call returns once its dependencies are collected
CollectResult(frame) == frame.acc \o <<frame.unit>>

RECURSIVE collect_units(_)
collect_units(unit) ==
  LET deps == unit_deps[unit]
      subs == [i \in 1..Len(deps) |-> collect_units(deps[i])]
  IN  CollectResult([unit |-> unit, acc |-> Flatten(subs)])

\* bcx.roots.iter().map(collect_units).flatten().collect()
AllUnits(rs) == Flatten([i \in 1..Len(rs) |-> collect_units(rs[i])])

(***************************************************************************)
(* The target unit locator                                                 *)
(***************************************************************************)
\* Path::parent
Parent(p) == IF Len(p) = 0 THEN None ELSE [kind |-> "some", path |-> SubSeq(p, 1, Len(p) - 1)]

\* Path::ancestors: the path itself, then each parent in turn
Ancestors(p) == {SubSeq(p, 1, k) : k \in 0..Len(p)}

IsMatch(u, path) ==
  LET unit_src_path == units[u].src_path
      src_dir == Parent(unit_src_path)
  IN  IF src_dir.kind = "some"
        THEN \E ancestor \in Ancestors(path) : ancestor = src_dir.path
        ELSE FALSE

HasLibCrateType(u) ==
  \E i \in 1..Len(units[u].crate_types) : units[u].crate_types[i] = "lib"

\* a slip that takes the first match whatever its crate types
FindFirst(matches) == [kind |-> "some", unit |-> matches[1]]

\* Iterator::find: the first element that satisfies the predicate
FindLib(matches) ==
  LET hits == {i \in 1..Len(matches) : HasLibCrateType(matches[i])}
  IN  IF hits = {} THEN None
      ELSE [kind |-> "some",
            unit |-> matches[CHOOSE i \in hits : \A j \in hits : i <= j]]

Ok(u) == [kind |-> "ok", unit |-> u, msg |-> <<>>]
Err(m) == [kind |-> "err", unit |-> 0, msg |-> m]

LocateTarget(all, path) ==
  LET matches == SelectSeq(all, LAMBDA u : IsMatch(u, path))
  IN  IF Len(matches) = 0 THEN Err(<<"Could not find unit for path">>)
      ELSE IF Len(matches) = 1 THEN Ok(matches[1])
      ELSE LET found == FindLib(matches)
           IN  IF found.kind = "some" THEN Ok(found.unit)
               ELSE Err(<<"No lib target w/ multiple targets">>)

(***************************************************************************)
(* The collection and location run, step by step                           *)
(***************************************************************************)
NoCall == [kind |-> "none"]

InitLocate ==
  /\ units \in {UnitTable(t) : t \in LibCrateTypes}
  /\ unit_deps \in DepGraphs
  /\ roots \in RootSeqs
  /\ rustc_run = <<>>
  /\ build_script = <<>>
  /\ manifest_ok = TRUE
  /\ process_env = <<>>
  /\ call = NoCall
  /\ stack = <<>>
  /\ next_root = 1
  /\ all_units = <<>>
  /\ source_path = <<>>
  /\ target_unit = None
  /\ pc = "collect"

Top == stack[Len(stack)]

\* the map over bcx.roots calls collect_units on the next root
CollectRoot ==
  /\ pc = "collect"
  /\ stack = <<>>
  /\ next_root <= Len(roots)
  /\ stack' = <<[unit |-> roots[next_root], i |-> 1, acc |-> <<>>]>>
  /\ UNCHANGED <<world, process_env, call, next_root, all_units, source_path,
                 target_unit, pc>>

\* the map over unit_deps calls collect_units on the next dependency
CollectDep ==
  /\ pc = "collect"
  /\ stack # <<>>
  /\ Top.i <= Len(unit_deps[Top.unit])
  /\ stack' = Append(stack, [unit |-> unit_deps[Top.unit][Top.i], i |-> 1, acc |-> <<>>])
  /\ UNCHANGED <<world, process_env, call, next_root, all_units, source_path,
                 target_unit, pc>>

\* a collect_units call returns: dependencies' units chained with the unit
CollectReturn ==
  /\ pc = "collect"
  /\ stack # <<>>
  /\ Top.i > Len(unit_deps[Top.unit])
  /\ LET result == CollectResult(Top)
         rest == SubSeq(stack, 1, Len(stack) - 1)
     IN  IF rest = <<>>
           THEN /\ stack' = <<>>
                /\ all_units' = all_units \o result
                /\ next_root' = next_root + 1
           ELSE /\ stack' = [rest EXCEPT ![Len(rest)] =
                               [@ EXCEPT !.acc = @ \o result, !.i = @ + 1]]
                /\ UNCHANGED <<all_units, next_root>>
  /\ UNCHANGED <<world, process_env, call, source_path, target_unit, pc>>

\* all roots are collected: the locator runs on the requested path
Locate ==
  /\ pc = "collect"
  /\ stack = <<>>
  /\ next_root > Len(roots)
  /\ \E path \in SourcePaths :
       /\ source_path' = path
       /\ target_unit' = LocateTarget(all_units, path)
  /\ pc' = "done"
  /\ UNCHANGED <<world, process_env, call, stack, next_root, all_units>>

NextLocate == CollectRoot \/ CollectDep \/ CollectReturn \/ Locate

SpecLocate == InitLocate /\ [][NextLocate]_vars

FairSpecLocate == SpecLocate /\ WF_vars(NextLocate)

(***************************************************************************)
(* Strings and paths                                                       *)
(***************************************************************************)
Whitespace == {" ", "\n"}
InvalidByte == "\\xff"

\* String::from_utf8 succeeds on the bytes
Utf8Valid(bytes) == \A i \in 1..Len(bytes) : bytes[i] # InvalidByte

RECURSIVE TrimStart(_)
TrimStart(s) ==
  IF s # <<>> /\ Head(s) \in Whitespace THEN TrimStart(Tail(s)) ELSE s

RECURSIVE TrimEnd(_)
TrimEnd(s) ==
  IF s # <<>> /\ s[Len(s)] \in Whitespace
    THEN TrimEnd(SubSeq(s, 1, Len(s) - 1)) ELSE s

\* str::trim
Trim(s) == TrimEnd(TrimStart(s))

\* Path::display: the components joined by the separator
RECURSIVE Display(_)
Display(p) ==
  IF Len(p) = 0 THEN <<>>
  ELSE IF Len(p) = 1 THEN <<p[1]>>
  ELSE <<p[1], "/">> \o Display(Tail(p))

Digits == <<"0", "1", "2", "3", "4", "5", "6", "7", "8", "9">>

\* u64::to_string, for the one-digit version components of the packages
NumToString(n) == <<Digits[n + 1]>>

\* semver::Version::to_string
VersionToString(v) ==
  NumToString(v.major) \o <<".">> \o NumToString(v.minor) \o <<".">> \o NumToString(v.patch)

(***************************************************************************)
(* The world a call runs in                                                *)
(***************************************************************************)
Programs == {<<"rustc">>, <<"alt">>}

LaunchFails == [spawned |-> FALSE, status |-> 0, stdout |-> <<>>]
ExitsNonzero == [spawned |-> TRUE, status |-> 1, stdout |-> <<>>]
PrintsGarbage == [spawned |-> TRUE, status |-> 0, stdout |-> <<InvalidByte, "\n">>]
PrintsSysroot(name) == [spawned |-> TRUE, status |-> 0, stdout |-> <<" ", "/opt/", name, "\n">>]

RustcWorlds ==
  {[p \in Programs |-> IF p = <<"rustc">> THEN r ELSE a] :
     r \in {LaunchFails, ExitsNonzero, PrintsGarbage, PrintsSysroot("stable")},
     a \in {ExitsNonzero, PrintsSysroot("nightly")}}

ScriptPairs ==
  {[k |-> "RUSTC", v |-> <<"alt">>],
   [k |-> "CARGO_PKG_NAME", v |-> <<"generated">>],
   [k |-> "GEN", v |-> <<"1">>]}

OutDir(pkg) == WorkspaceDir \o <<"target", "debug", "build", pkg, "out">>

NoScript == [present |-> FALSE, run_ok |-> TRUE, recorded |-> FALSE, env |-> <<>>]

ScriptStates ==
  {NoScript,
   [present |-> TRUE, run_ok |-> FALSE, recorded |-> FALSE, env |-> <<>>],
   [present |-> TRUE, run_ok |-> TRUE, recorded |-> FALSE, env |-> <<>>]}
  \cup {[present |-> TRUE, run_ok |-> TRUE, recorded |-> TRUE, env |-> e] :
          e \in SeqsUpTo(ScriptPairs, MaxScriptPairs)}

FeatureOrder == <<"extra", "fast">>
FeatureSelections == {{}, {"extra"}, {"extra", "fast"}}

ManifestPath == WorkspaceDir \o <<"Cargo.toml">>
DepsDir == WorkspaceDir \o <<"target", "debug", "deps">>

EmptyEnv == [k \in {} |-> <<>>]

(***************************************************************************)
(* generate_rustc_flags                                                    *)
(***************************************************************************)
\* the roots create_bcx yields under the compile filter
BcxRoots(lib_only) ==
  IF lib_only THEN SelectSeq(roots, LAMBDA u : units[u].is_lib) ELSE roots

\* the features cargo enables on a unit for the feature selection
UnitFeatures(u, features) ==
  SelectSeq(FeatureOrder,
            LAMBDA f : f \in features /\ f \in Packages[units[u].pkg].features)

\* a slip that takes the last declared crate type
unit_flags_last_crate_type(u, sysroot) ==
  << <<"rustc">>,
     <<"--crate-name">>, units[u].crate_name,
     <<"--crate-type">>, <<units[u].crate_types[Len(units[u].crate_types)]>>,
     <<"--sysroot">>, sysroot,
     Display(units[u].src_path),
     <<"--edition=">> \o units[u].edition,
     <<"-L">>, Display(DepsDir),
     <<"--emit=dep-info,metadata">> >>

unit_flags(u, sysroot) ==
  << <<"rustc">>,
     <<"--crate-name">>, units[u].crate_name,
     <<"--crate-type">>, <<units[u].crate_types[1]>>,
     <<"--sysroot">>, sysroot,
     Display(units[u].src_path),
     <<"--edition=">> \o units[u].edition,
     <<"-L">>, Display(DepsDir),
     <<"--emit=dep-info,metadata">> >>

feature_flags(fs) ==
  Flatten([i \in 1..Len(fs) |->
             << <<"--cfg">>, <<"feature=\"", fs[i], "\"">> >>])

\* cargo's extern_args: an --extern pair for each dependency of the unit
extern_args(u) ==
  Flatten([i \in 1..Len(unit_deps[u]) |->
             LET d == unit_deps[u][i]
             IN  << <<"--extern">>,
                    units[d].crate_name \o <<"=">>
                      \o Display(DepsDir \o <<units[d].artifact>>) >>])

BaseEnv(u) ==
  LET pkg == Packages[units[u].pkg]
  IN  [CARGO_PKG_VERSION |-> VersionToString(pkg.version),
       CARGO_PKG_NAME |-> pkg.name,
       CARGO_MANIFEST_DIR |-> Display(Parent(ManifestPath).path),
       CARGO_PKG_VERSION_MAJOR |-> NumToString(pkg.version.major),
       CARGO_PKG_VERSION_MINOR |-> NumToString(pkg.version.minor),
       CARGO_PKG_VERSION_PATCH |-> NumToString(pkg.version.patch)]

\* HashMap::insert
Insert(env, k, v) ==
  [x \in DOMAIN env \cup {k} |-> IF x = k THEN v ELSE env[x]]

\* HashMap::extend: the pairs are inserted in order, a later pair replaces
\* an earlier one with the same key
RECURSIVE Extend(_, _)
Extend(env, pairs) ==
  IF pairs = <<>> THEN env
  ELSE Extend(Insert(env, Head(pairs).k, Head(pairs).v), Tail(pairs))

\* the environment after the build script's OUT_DIR and pairs are merged in
ScriptEnv(base, pkg) ==
  Extend(Insert(base, "OUT_DIR", Display(OutDir(pkg))), build_script[pkg].env)

\* env::set_var for every pair of the map
SetVars(penv, env) ==
  [x \in DOMAIN penv \cup DOMAIN env |->
     IF x \in DOMAIN env THEN env[x] ELSE penv[x]]

Returned(kind, args, rustc, unit, flags, env, msg) ==
  [kind |-> kind, args |-> args, rustc |-> rustc, unit |-> unit,
   flags |-> flags, env |-> env, msg |-> msg, queries |-> 1]

\* one run of generate_rustc_flags in the process environment penv
Run(args, penv) ==
  LET rustc == IF "RUSTC" \in DOMAIN penv THEN penv["RUSTC"] ELSE <<"rustc">>
      output == rustc_run[rustc]
      Fail(unit, msg) == Returned("err", args, rustc, unit, <<>>, EmptyEnv, msg)
  IN
  IF ~output.spawned THEN Fail(0, <<"io error">>)
  ELSE IF ~Utf8Valid(output.stdout) THEN Fail(0, <<"invalid utf-8">>)
  ELSE IF ~manifest_ok THEN Fail(0, <<"manifest">>)
  ELSE
    LET sysroot == Trim(output.stdout)
        located == LocateTarget(AllUnits(BcxRoots(args.lib_only)), args.source_path)
    IN
    IF located.kind = "err" THEN Fail(0, located.msg)
    ELSE
      LET u == located.unit
          flags == unit_flags(u, sysroot)
                     \o feature_flags(UnitFeatures(u, args.features))
                     \o extern_args(u)
          env == BaseEnv(u)
          script == build_script[units[u].pkg]
      IN
      IF ~script.present THEN Returned("ok", args, rustc, u, flags, env, <<>>)
      ELSE IF ~script.run_ok THEN Fail(u, <<"build script failed">>)
      ELSE IF ~script.recorded
        THEN Returned("panic", args, rustc, u, <<>>, EmptyEnv,
                      <<"called Option::unwrap() on a None value">>)
      ELSE Returned("ok", args, rustc, u, flags, ScriptEnv(env, units[u].pkg), <<>>)

Init ==
  /\ units \in {UnitTable(t) : t \in LibCrateTypes}
  /\ unit_deps = DeclaredDeps
  /\ roots = DeclaredRoots
  /\ rustc_run \in RustcWorlds
  /\ build_script \in {[demo |-> s, helper |-> NoScript] : s \in ScriptStates}
  /\ manifest_ok \in BOOLEAN
  /\ ~manifest_ok => build_script["demo"] = NoScript
  /\ process_env \in {EmptyEnv, [RUSTC |-> <<"alt">>]}
  /\ call = NoCall
  /\ stack = <<>>
  /\ next_root = 1
  /\ all_units = <<>>
  /\ source_path = <<>>
  /\ target_unit = None
  /\ pc = "idle"

\* a call of generate_rustc_flags, from entry to return or panic
GenerateRustcFlags ==
  /\ pc = "idle"
  /\ call.kind # "panic"
  /\ \E path \in SourcePaths, features \in FeatureSelections, lib_only \in BOOLEAN :
       LET r == Run([source_path |-> path, features |-> features,
                     lib_only |-> lib_only], process_env)
       IN  /\ call' = r
           /\ process_env' = IF r.kind = "ok" THEN SetVars(process_env, r.env)
                             ELSE process_env
  /\ UNCHANGED <<world, stack, next_root, all_units, source_path, target_unit, pc>>

Next == GenerateRustcFlags

Spec == Init /\ [][Next]_vars

(***************************************************************************)
(* Properties of the collection and of the locator                         *)
(***************************************************************************)
RECURSIVE DepsClosure(_)
DepsClosure(S) ==
  LET T == S \cup UNION {Range(unit_deps[u]) : u \in S}
  IN  IF T = S THEN S ELSE DepsClosure(T)

Reachable == DepsClosure(Range(roots))
TransitiveDeps(u) == DepsClosure(Range(unit_deps[u]))

IsPrefix(p, q) == Len(p) <= Len(q) /\ \A i \in 1..Len(p) : p[i] = q[i]

SrcDir(u) == SubSeq(units[u].src_path, 1, Len(units[u].src_path) - 1)

\* the distinct units of the graph whose source directory is the requested
\* path or one of its ancestors
Candidates == {u \in Reachable : IsPrefix(SrcDir(u), source_path)}

IsLibrary(u) == "lib" \in Range(units[u].crate_types)
LibCandidates == {u \in Candidates : IsLibrary(u)}

NotFound == Err(<<"Could not find unit for path">>)
NoLib == Err(<<"No lib target w/ multiple targets">>)

\* C1: zero candidate units give the 'no unit found' error, exactly one
\* candidate unit is the target, several candidates give a candidate with
\* the library crate type or, without one, the 'no lib target' error.
C1_ThreeWayPolicy ==
  pc = "done" =>
    /\ Candidates = {} => target_unit = NotFound
    /\ Cardinality(Candidates) = 1 =>
         target_unit = Ok(CHOOSE u \in Candidates : TRUE)
    /\ Cardinality(Candidates) > 1 =>
         IF LibCandidates = {} THEN target_unit = NoLib
         ELSE target_unit.kind = "ok" /\ target_unit.unit \in LibCandidates

\* C7: when exactly one candidate unit has the library crate type, the
\* locator selects it, in whatever order the collected list holds the
\* candidates.
C7_LibraryPreferred ==
  (pc = "done" /\ Cardinality(LibCandidates) = 1) =>
    target_unit = Ok(CHOOSE u \in LibCandidates : TRUE)

FirstMatchIndex ==
  CHOOSE i \in 1..Len(all_units) :
    /\ all_units[i] \in Candidates
    /\ \A j \in 1..(i - 1) : all_units[j] \notin Candidates

\* several candidates, one library among them, a binary enumerated first
C7_Witness ==
  /\ pc = "done"
  /\ Cardinality(Candidates) >= 3
  /\ Cardinality(LibCandidates) = 1
  /\ ~IsLibrary(all_units[FirstMatchIndex])
  /\ target_unit.kind = "ok"
  /\ IsLibrary(target_unit.unit)

\* C9: exactly one distinct candidate unit is the target, whatever its kind
\* and however many paths lead to it.
C9_SingleCandidate ==
  (pc = "done" /\ Cardinality(Candidates) = 1) =>
    target_unit = Ok(CHOOSE u \in Candidates : TRUE)

CollectPost ==
  /\ Reachable \subseteq Range(all_units)
  /\ \A i \in 1..Len(all_units) :
       \A d \in TransitiveDeps(all_units[i]) :
         \E j \in 1..(i - 1) : all_units[j] = d

\* C10: on an acyclic unit graph the collection terminates, and the list
\* holds every unit reachable from a root, each occurrence of a unit after
\* all of the unit's transitive dependencies.
C10_CollectTerminatesPostOrder ==
  /\ <>(pc = "done")
  /\ [](pc = "done" => CollectPost)

\* a unit with dependencies of its own, reached along several paths
C10_Witness ==
  /\ pc = "done"
  /\ \E u \in Units :
       /\ Count(all_units, u) >= 2
       /\ unit_deps[u] # <<>>
  /\ CollectPost

\* the step-by-step collection computes what collect_units returns
CollectAgrees == pc = "done" => all_units = AllUnits(roots)

(***************************************************************************)
(* Properties of a call                                                    *)
(***************************************************************************)
TargetOf(c) == units[c.unit]
TargetPkg(c) == Packages[TargetOf(c).pkg]

\* t is s without its leading and trailing whitespace
IsTrimOf(t, s) ==
  /\ t = <<>> \/ (t[1] \notin Whitespace /\ t[Len(t)] \notin Whitespace)
  /\ \E a \in 0..Len(s) :
       /\ a + Len(t) <= Len(s)
       /\ \A i \in 1..a : s[i] \in Whitespace
       /\ \A i \in 1..Len(t) : s[a + i] = t[i]
       /\ \A i \in (a + Len(t) + 1)..Len(s) : s[i] \in Whitespace

EnabledFeatures(c) == c.args.features \cap TargetPkg(c).features
FeatureCfg(f) == <<"feature=\"", f, "\"">>

FlagsOk(c) ==
  LET fl == c.flags
      t == TargetOf(c)
      nf == Cardinality(EnabledFeatures(c))
      deps == unit_deps[c.unit]
      fbase == 12
      ebase == 12 + 2 * nf
  IN  /\ Len(fl) = 12 + 2 * nf + 2 * Len(deps)
      /\ fl[1] = <<"rustc">>
      /\ fl[2] = <<"--crate-name">> /\ fl[3] = t.crate_name
      /\ fl[4] = <<"--crate-type">> /\ fl[5] = <<Head(t.crate_types)>>
      /\ fl[6] = <<"--sysroot">> /\ IsTrimOf(fl[7], rustc_run[c.rustc].stdout)
      /\ fl[8] = Display(t.src_path)
      /\ (c.args.source_path # t.src_path => fl[8] # Display(c.args.source_path))
      /\ fl[9] = <<"--edition=">> \o t.edition
      /\ fl[10] = <<"-L">> /\ fl[11] = Display(DepsDir)
      /\ fl[12] = <<"--emit=dep-info,metadata">>
      /\ \A k \in 1..nf : fl[fbase + 2 * k - 1] = <<"--cfg">>
      /\ {fl[fbase + 2 * k] : k \in 1..nf} = {FeatureCfg(f) : f \in EnabledFeatures(c)}
      /\ \A k \in 1..Len(deps) :
           /\ fl[ebase + 2 * k - 1] = <<"--extern">>
           /\ fl[ebase + 2 * k] =
                units[deps[k]].crate_name \o <<"=">>
                  \o Display(DepsDir \o <<units[deps[k]].artifact>>)
      /\ Count(fl, <<"--crate-name">>) = 1
      /\ Count(fl, <<"--crate-type">>) = 1
      /\ Count(fl, <<"--sysroot">>) = 1
      /\ Count(fl, Display(t.src_path)) = 1
      /\ Count(fl, <<"--edition=">> \o t.edition) = 1
      /\ Count(fl, <<"-L">>) = 1
      /\ Count(fl, <<"--cfg">>) = nf

\* C2: a successful call returns rustc, the crate name, the FIRST crate
\* type, the trimmed sysroot, the target's source root, the edition, the
\* dependency directory, the emit flag, one --cfg pair per enabled feature
\* and one --extern pair per dependency, in this order, each of the leading
\* items once.
C2_FlagSequence == call.kind = "ok" => FlagsOk(call)

\* a target with several crate types, two features and dependencies, asked
\* about through a file that is not its source root
C2_Witness ==
  /\ call.kind = "ok"
  /\ Len(TargetOf(call).crate_types) = 2
  /\ Cardinality(EnabledFeatures(call)) = 2
  /\ unit_deps[call.unit] # <<>>
  /\ call.args.source_path # TargetOf(call).src_path
  /\ FlagsOk(call)

\* C3: a call leaves every variable of the process environment as it was.
C3_NoEnvSideEffect == [][process_env' = process_env]_vars

ScriptOf(c) == build_script[TargetOf(c).pkg]

\* C4: a target whose build script ran but recorded no output makes the
\* call finish normally with the base package variables only.
C4_NoOutputNoPanic ==
  (/\ call.kind # "none"
   /\ call.unit # 0
   /\ ScriptOf(call).present
   /\ ScriptOf(call).run_ok
   /\ ~ScriptOf(call).recorded)
  => (/\ call.kind = "ok"
      /\ DOMAIN call.env = {"CARGO_PKG_VERSION", "CARGO_PKG_NAME",
                            "CARGO_MANIFEST_DIR", "CARGO_PKG_VERSION_MAJOR",
                            "CARGO_PKG_VERSION_MINOR", "CARGO_PKG_VERSION_PATCH"})

\* the base variables, as cargo sets them for the target unit's package
PackageEnv(c) ==
  LET pkg == TargetPkg(c)
  IN  [CARGO_PKG_VERSION |->
         <<Digits[pkg.version.major + 1], ".", Digits[pkg.version.minor + 1],
           ".", Digits[pkg.version.patch + 1]>>,
       CARGO_PKG_VERSION_MAJOR |-> <<Digits[pkg.version.major + 1]>>,
       CARGO_PKG_VERSION_MINOR |-> <<Digits[pkg.version.minor + 1]>>,
       CARGO_PKG_VERSION_PATCH |-> <<Digits[pkg.version.patch + 1]>>,
       CARGO_PKG_NAME |-> pkg.name,
       CARGO_MANIFEST_DIR |-> Display(pkg.root)]

EmittedKeys(c) == {ScriptOf(c).env[i].k : i \in 1..Len(ScriptOf(c).env)}

\* the value of the last pair the script emitted for the key
EmittedValue(c, key) ==
  LET e == ScriptOf(c).env
      last == CHOOSE i \in 1..Len(e) :
                e[i].k = key /\ \A j \in (i + 1)..Len(e) : e[j].k # key
  IN  e[last].v

\* C5: the environment of a successful call holds the version, name and
\* manifest directory of the target unit's package; with a build script it
\* also holds OUT_DIR and the script's pairs, a key the script emits has
\* the script's value and every other base key keeps its base value.
C5_ResolvedEnv ==
  call.kind = "ok" =>
    /\ DOMAIN PackageEnv(call) \subseteq DOMAIN call.env
    /\ \A key \in DOMAIN PackageEnv(call) :
         key \notin EmittedKeys(call) => call.env[key] = PackageEnv(call)[key]
    /\ ScriptOf(call).present =>
         /\ "OUT_DIR" \in DOMAIN call.env
         /\ call.env["OUT_DIR"] = Display(OutDir(TargetOf(call).pkg))
         /\ \A key \in EmittedKeys(call) :
              /\ key \in DOMAIN call.env
              /\ call.env[key] = EmittedValue(call, key)

\* C6: with the project unchanged, a call with the arguments of the call
\* before it returns the same flags and the same environment.
C6_Idempotent ==
  [][(call.kind \in {"ok", "err"} /\ call'.args = call.args)
       => (/\ call'.kind = call.kind
           /\ call'.flags = call.flags
           /\ call'.env = call.env)]_vars

QueryFailed(out) ==
  \/ ~out.spawned
  \/ out.status # 0
  \/ ~Utf8Valid(out.stdout)

\* C8: a failed sysroot query ends the call with an error and no flags,
\* and the query is attempted at most once.
C8_QueryFailureIsError ==
  call.kind # "none" =>
    /\ call.queries <= 1
    /\ QueryFailed(rustc_run[call.rustc]) => (call.kind = "err" /\ call.flags = <<>>)

====
